---- MODULE Spec2Model ----
(***************************************************************************)
(* A model of src/src/verilog_docgen.py: the regular-expression based      *)
(* extraction of modules, parameters, ports and instances from Verilog     *)
(* text, the rendering of the documentation, and the run of main.          *)
(*                                                                         *)
(* A text is a sequence of lexical atoms.  An atom is a string that stands *)
(* for its own characters: a keyword or identifier fragment made of word   *)
(* characters only ("module", "wire", "a"), one whitespace character       *)
(* (" ", "\n") or one punctuation character ("(", ";", "/").  Two adjacent *)
(* word atoms form one longer word ("wire","_en" is the name wire_en).     *)
(* No text of the model puts side by side atoms that spell another atom,   *)
(* so a text has one representation and the regular expressions'           *)
(* character-level semantics (classes, word boundaries, literal keywords)  *)
(* lift exactly to atoms.                                                  *)
(***************************************************************************)
EXTENDS Integers, Sequences, FiniteSets, TLC

VARIABLES
    pc,         \* position of the run (of main, or of the function applied)
    src,        \* the input as written down before it was laid out as text
    text,       \* the input text handed to the operation
    out,        \* the operation's result
    out2,       \* the result of a second application
    modules,    \* main: the list parse_modules returned
    lines,      \* build_documentation: the lines appended so far
    error,      \* main: the exception that ended the run, with its raiser
    fs          \* main: the output directory and file

vars == <<pc, src, text, out, out2, modules, lines, error, fs>>

(***************************************************************************)
(* Python values.                                                          *)
(***************************************************************************)
None == <<>>
Some(v) == <<v>>

SpaceAtoms == {" ", "\n"}
PunctAtoms == {"(", ")", ";", ",", "#", "[", "]", "=", ".", "/", "*", ":"}

\* \w: every character of the atom is a letter, a digit or an underscore
IsWord(a) == a \notin SpaceAtoms /\ a \notin PunctAtoms
\* \s
IsSpace(a) == a \in SpaceAtoms

(***************************************************************************)
(* The re module: a backtracking matcher.  A pattern is a sequence of      *)
(* items; an item may require a word boundary before it (\b) and may open  *)
(* or close a capture group.  Alternatives are tried in the order Python's *)
(* engine tries them and the first overall success is the match.           *)
(***************************************************************************)
Item(t) ==
    [t |-> t, s |-> <<>>, c |-> "", min |-> 0, greedy |-> TRUE, p |-> <<>>,
     wb |-> FALSE, open |-> 0, close |-> 0]

Lit(s) == [Item("lit") EXCEPT !.s = s]                 \* literal text
OneOf(S) == [Item("alt") EXCEPT !.s = S]               \* k1|k2|... of one-atom keywords
Eol == Item("eol")                                     \* $ under re.MULTILINE
Opt(p) == [Item("opt") EXCEPT !.p = p]                 \* (...)?
Rep(c, min, greedy) == [Item("rep") EXCEPT !.c = c, !.min = min, !.greedy = greedy]
Star(c) == Rep(c, 0, TRUE)                             \* c*
Plus(c) == Rep(c, 1, TRUE)                             \* c+
LazyStar(c) == Rep(c, 0, FALSE)                        \* c*?
B(it) == [it EXCEPT !.wb = TRUE]                       \* \b it
In(g, it) == [it EXCEPT !.open = g, !.close = g]       \* (it), group g
From(g, it) == [it EXCEPT !.open = g]                  \* (it ..., group g
To(g, it) == [it EXCEPT !.close = g]                   \* ... it), group g

InClass(c, a) ==
    CASE c = "w" -> IsWord(a)
      [] c = "s" -> IsSpace(a)
      [] c = "any" -> TRUE                             \* . under re.DOTALL
      [] c = "dot" -> a # "\n"                         \* . otherwise
      [] c = "not]" -> a # "]"                         \* [^\]]
      [] c = "not;" -> a # ";"                         \* [^;]
      [] c = "not)" -> a # ")"                         \* [^)]
      [] c = "nots" -> ~IsSpace(a)                     \* \S

AtWordBoundary(s, i) ==
    LET before == i > 1 /\ i - 1 <= Len(s) /\ IsWord(s[i - 1])
        after == i >= 1 /\ i <= Len(s) /\ IsWord(s[i])
    IN before # after

Min(S) == CHOOSE n \in S : \A m \in S : n <= m
Max(S) == CHOOSE n \in S : \A m \in S : n >= m

\* how many items from position i on are of class c
RunLen(c, s, i) ==
    LET stops == {k \in i..Len(s) : ~InClass(c, s[k])}
    IN IF stops = {} THEN Len(s) + 1 - i ELSE Min(stops) - i

LitAt(lit, s, i) == i + Len(lit) - 1 <= Len(s) /\ SubSeq(s, i, i + Len(lit) - 1) = lit

\* whether the first item of p can start at position i: what the engine
\* finds out first when it tries p there
CanStart(p, s, i) ==
    \/ p = <<>>
    \/ /\ Head(p).wb => AtWordBoundary(s, i)
       /\ CASE Head(p).t = "lit" -> LitAt(Head(p).s, s, i)
            [] Head(p).t = "alt" -> i <= Len(s) /\ s[i] \in Head(p).s
            [] Head(p).t = "eol" -> i = Len(s) + 1 \/ (i <= Len(s) /\ s[i] = "\n")
            [] Head(p).t = "rep" ->
                 Head(p).min = 0 \/ (i <= Len(s) /\ InClass(Head(p).c, s[i]))
            [] Head(p).t = "opt" -> TRUE

\* no group has taken part yet (no pattern has more than five)
NoCaps == <<<<0, 0>>, <<0, 0>>, <<0, 0>>, <<0, 0>>, <<0, 0>>>>

\* one way to match: where it ends, the alternative taken at each choice the
\* engine met (0 for the one it tries first), and the groups' spans
Way(end, choices, caps) == [end |-> end, choices |-> choices, caps |-> caps]

\* the way of one item from i to j, with the group it opens or closes
ItemWay(it, i, j, choices) ==
    LET opened == IF it.open = 0 THEN NoCaps ELSE [NoCaps EXCEPT ![it.open][1] = i]
    IN Way(j, choices, IF it.close = 0 THEN opened ELSE [opened EXCEPT ![it.close][2] = j])

\* way a followed by way b
Then(a, b) ==
    Way(b.end, a.choices \o b.choices,
        [g \in 1..Len(NoCaps) |-> <<a.caps[g][1] + b.caps[g][1], a.caps[g][2] + b.caps[g][2]>>])

RECURSIVE Ways(_, _, _, _)
\* every way to match pattern p from position i of s, such that the pattern
\* after can start where it ends
Ways(p, after, s, i) ==
    IF p = <<>> THEN {Way(i, <<>>, NoCaps)}
    ELSE IF ~CanStart(p, s, i) THEN {}
    ELSE IF Len(p) > 1
    THEN LET h == Len(p) \div 2
             left == SubSeq(p, 1, h)
             right == SubSeq(p, h + 1, Len(p))
         IN UNION {{Then(a, b) : b \in Ways(right, after, s, a.end)} :
                   a \in Ways(left, right \o after, s, i)}
    ELSE LET it == p[1]
         IN CASE it.t = "lit" -> {ItemWay(it, i, i + Len(it.s), <<>>)}
              [] it.t = "alt" -> {ItemWay(it, i, i + 1, <<>>)}
              [] it.t = "eol" -> {ItemWay(it, i, i, <<>>)}
              [] it.t = "opt" ->
                   {Then(Way(i, <<0>>, NoCaps), w) : w \in Ways(it.p, after, s, i)}
                   \cup {Way(i, <<1>>, NoCaps)}
              [] it.t = "rep" ->
                   LET most == RunLen(it.c, s, i)
                   IN {ItemWay(it, i, i + n, <<IF it.greedy THEN most - n ELSE n>>) :
                       n \in {m \in it.min..most : CanStart(after, s, i + m)}}

\* the engine tries a before b: at the first choice where they part, a took
\* the alternative tried earlier
TriedBefore(a, b) ==
    LET parted == {k \in 1..Len(a) : k <= Len(b) /\ a[k] # b[k]}
    IN parted # {} /\ a[Min(parted)] < b[Min(parted)]

NoMatch == [ok |-> FALSE, start |-> 0, end |-> 0, caps |-> NoCaps]

\* pattern.match(s, i): the way the engine finds first
MatchAt(p, s, i) ==
    LET ways == Ways(p, <<>>, s, i)
        first == CHOOSE w \in ways :
                     \A v \in ways : v = w \/ TriedBefore(w.choices, v.choices)
    IN IF ways = {} THEN NoMatch
       ELSE [ok |-> TRUE, start |-> i, end |-> first.end, caps |-> first.caps]

\* match.group(g): absent when the group took no part in the match
Group(s, m, g) ==
    IF m.caps[g][2] = 0 THEN None ELSE Some(SubSeq(s, m.caps[g][1], m.caps[g][2] - 1))

RECURSIVE Leftmost(_, _)
\* of the matches at every position, the leftmost from position i on, then
\* the leftmost from where it ends, and so on
Leftmost(all, i) ==
    LET later == {m \in all : m.start >= i}
        m == CHOOSE n \in later : \A o \in later : n.start <= o.start
    IN IF later = {} THEN <<>>
       ELSE <<m>> \o Leftmost(all, IF m.end > m.start THEN m.end ELSE m.start + 1)

\* pattern.finditer(s): the non-overlapping matches, leftmost first
FindIter(p, s) ==
    Leftmost({m \in {MatchAt(p, s, i) : i \in 1..(Len(s) + 1)} : m.ok}, 1)

RECURSIVE SubEmptyFrom(_, _, _)
SubEmptyFrom(ms, s, i) ==
    IF ms = <<>> THEN SubSeq(s, i, Len(s))
    ELSE SubSeq(s, i, Head(ms).start - 1) \o SubEmptyFrom(Tail(ms), s, Head(ms).end)

\* re.sub(p, "", s)
SubEmpty(p, s) == SubEmptyFrom(FindIter(p, s), s, 1)

(***************************************************************************)
(* strip_comments                                                          *)
(***************************************************************************)
LineCommentPattern == <<Lit(<<"/", "/">>), LazyStar("dot"), Eol>>
BlockCommentPattern == <<Lit(<<"/", "*">>), LazyStar("any"), Lit(<<"*", "/">>)>>

\* strip_comments, had it removed only the first comment of each kind
strip_first_comments(t) ==
    LET first(ms) == IF ms = <<>> THEN <<>> ELSE <<Head(ms)>>
        once(p, s) == SubEmptyFrom(first(FindIter(p, s)), s, 1)
    IN once(BlockCommentPattern, once(LineCommentPattern, t))

strip_comments(t) == SubEmpty(BlockCommentPattern, SubEmpty(LineCommentPattern, t))

(***************************************************************************)
(* str methods, on texts.                                                  *)
(***************************************************************************)
\* the members of a set of numbers, in increasing order
Sorted(S) == [j \in 1..Cardinality(S) |-> CHOOSE k \in S : Cardinality({m \in S : m < k}) = j - 1]

\* s.split(sep), sep one character
Split(s, sep) ==
    LET at == Sorted({k \in 1..Len(s) : s[k] = sep})
        cut == <<0>> \o at \o <<Len(s) + 1>>
    IN [j \in 1..(Len(at) + 1) |-> SubSeq(s, cut[j] + 1, cut[j + 1] - 1)]

\* s.strip(chars)
StripChars(s, S) ==
    LET kept == {k \in 1..Len(s) : s[k] \notin S}
    IN IF kept = {} THEN <<>> ELSE SubSeq(s, Min(kept), Max(kept))

\* s.strip()
StrStrip(s) == StripChars(s, SpaceAtoms)

\* s.replace(old, ""), old one atom
ReplaceEmpty(s, old) == SelectSeq(s, LAMBDA a : a # old)

\* s.replace("\n", " ")
ReplaceNewline(s) == [k \in 1..Len(s) |-> IF s[k] = "\n" THEN " " ELSE s[k]]

\* s.split(): the maximal runs of characters that are not whitespace
SplitWhitespace(s) ==
    LET starts == Sorted({k \in 1..Len(s) :
                             ~IsSpace(s[k]) /\ (k = 1 \/ IsSpace(s[k - 1]))})
    IN [j \in 1..Len(starts) |->
           SubSeq(s, starts[j], starts[j] + RunLen("nots", s, starts[j]) - 1)]

Map(f(_), s) == [k \in 1..Len(s) |-> f(s[k])]

RECURSIVE Flatten(_)
\* the texts of a list, one after another
Flatten(ss) ==
    IF ss = <<>> THEN <<>>
    ELSE IF Len(ss) = 1 THEN ss[1]
    ELSE Flatten(SubSeq(ss, 1, Len(ss) \div 2))
         \o Flatten(SubSeq(ss, Len(ss) \div 2 + 1, Len(ss)))

(***************************************************************************)
(* parse_parameters                                                        *)
(***************************************************************************)
CleanParameter(part) == StrStrip(ReplaceEmpty(part, "parameter"))

\* the stripped fragments of raw.split(",") that are not empty
StrippedParts(raw) == SelectSeq(Map(StrStrip, Split(raw, ",")), LAMBDA part : part # <<>>)

\* raw: None or Some(text)
parse_parameters(raw) ==
    IF raw = None \/ raw[1] = <<>> THEN <<>>
    ELSE Map(CleanParameter, StrippedParts(raw[1]))

(***************************************************************************)
(* parse_ports_from_header                                                 *)
(***************************************************************************)
HeaderPortName(part) ==
    LET tokens == SplitWhitespace(ReplaceNewline(part))
    IN IF tokens # <<>> THEN <<StripChars(tokens[Len(tokens)], {")"})>> ELSE <<>>

parse_ports_from_header(raw) == Flatten(Map(HeaderPortName, StrippedParts(raw)))

(***************************************************************************)
(* parse_port_declarations                                                 *)
(***************************************************************************)
Port(name, direction, data_type, width) ==
    [name |-> name, direction |-> direction, data_type |-> data_type, width |-> width]

\* \b(input|output|inout)\b\s*(reg|wire|logic)?\s*(\[[^\]]+\])?\s*([^;]+);
port_decl ==
    <<B(In(1, OneOf({"input", "output", "inout"}))), B(Star("s")),
      Opt(<<In(2, OneOf({"reg", "wire", "logic"}))>>), Star("s"),
      Opt(<<From(3, Lit(<<"[">>)), Plus("not]"), To(3, Lit(<<"]">>))>>), Star("s"),
      In(4, Plus("not;")), Lit(<<";">>)>>

\* the Port of one name of a declaration's name list, none for an empty name
DeclaredPort(name, direction, data_type, width) ==
    LET clean_name == StrStrip(name)
    IN IF clean_name = <<>> THEN <<>>
       ELSE <<Port(IF "=" \in {clean_name[k] : k \in 1..Len(clean_name)}
                   THEN StrStrip(Split(clean_name, "=")[1])
                   ELSE clean_name,
                   direction, data_type, width)>>

\* the Ports of one match of port_decl
MatchPorts(body, m) ==
    LET direction == Group(body, m, 1)
        data_type == Group(body, m, 2)
        width == Group(body, m, 3)
        names == Group(body, m, 4)[1]
    IN Flatten(Map(LAMBDA name : DeclaredPort(name, direction, data_type, width),
                   Split(names, ",")))

parse_port_declarations(body) ==
    Flatten(Map(LAMBDA m : MatchPorts(body, m), FindIter(port_decl, body)))

(***************************************************************************)
(* parse_instances                                                         *)
(***************************************************************************)
KEYWORDS == {"if", "for", "case", "always", "assign", "generate", "endmodule"}

Instance(module_name, instance_name, connections) ==
    [module_name |-> module_name, instance_name |-> instance_name,
     connections |-> connections]

\* \b(\w+)\s+(\w+)\s*\((.*?)\)\s*;   with re.DOTALL
instance_pattern ==
    <<B(In(1, Plus("w"))), Plus("s"), In(2, Plus("w")), Star("s"), Lit(<<"(">>),
      In(3, LazyStar("any")), Lit(<<")">>), Star("s"), Lit(<<";">>)>>

\* \.(\w+)\s*\(\s*([^)]+)\s*\)
connection_pattern ==
    <<Lit(<<".">>), In(1, Plus("w")), Star("s"), Lit(<<"(">>), Star("s"),
      In(2, Plus("not)")), Star("s"), Lit(<<")">>)>>

\* re.findall(connection_pattern, raw_connections), each signal stripped
Connections(raw_connections) ==
    Map(LAMBDA m : <<Group(raw_connections, m, 1)[1],
                     StrStrip(Group(raw_connections, m, 2)[1])>>,
        FindIter(connection_pattern, raw_connections))

\* a one-atom word is in KEYWORDS when it is one of them; a longer word is not
InKeywords(word) == Len(word) = 1 /\ word[1] \in KEYWORDS

MatchInstance(body, m) ==
    LET module_name == Group(body, m, 1)[1]
        instance_name == Group(body, m, 2)[1]
        raw_connections == Group(body, m, 3)[1]
    IN IF InKeywords(module_name) THEN <<>>
       ELSE <<Instance(module_name, instance_name, Connections(raw_connections))>>

parse_instances(body) ==
    Flatten(Map(LAMBDA m : MatchInstance(body, m), FindIter(instance_pattern, body)))

(***************************************************************************)
(* parse_modules                                                           *)
(***************************************************************************)
Module(name, parameters, ports, instances) ==
    [name |-> name, parameters |-> parameters, ports |-> ports, instances |-> instances]

\* \bmodule\s+(\w+)\s*(#\s*\((?P<params>.*?)\))?\s*\((?P<ports>.*?)\)\s*;
\* (?P<body>.*?)\bendmodule   with re.DOTALL
\* groups: 1 the name, 3 params, 4 ports, 5 body (2, around the parameter
\* section, is never read)
module_pattern ==
    <<B(Lit(<<"module">>)), Plus("s"), In(1, Plus("w")), Star("s"),
      Opt(<<Lit(<<"#">>), Star("s"), Lit(<<"(">>), In(3, LazyStar("any")), Lit(<<")">>)>>),
      Star("s"), Lit(<<"(">>), In(4, LazyStar("any")), Lit(<<")">>),
      Star("s"), Lit(<<";">>), In(5, LazyStar("any")), B(Lit(<<"endmodule">>))>>

HeaderPorts(header_ports) == Map(LAMBDA p : Port(p, None, None, None), header_ports)

\* MatchModule, had it preferred the header's names to the body's declarations
MatchModuleHeaderFirst(clean, m) ==
    LET name == Group(clean, m, 1)[1]
        params == parse_parameters(Group(clean, m, 3))
        header_ports == parse_ports_from_header(Group(clean, m, 4)[1])
        body == Group(clean, m, 5)[1]
    IN Module(name, params,
              IF header_ports = <<>> THEN parse_port_declarations(body)
              ELSE HeaderPorts(header_ports),
              parse_instances(body))

\* the Module assembled from one match of module_pattern
MatchModule(clean, m) ==
    LET name == Group(clean, m, 1)[1]
        params == parse_parameters(Group(clean, m, 3))
        header_ports == parse_ports_from_header(Group(clean, m, 4)[1])
        body == Group(clean, m, 5)[1]
        ports == parse_port_declarations(body)
    IN Module(name, params,
              IF ports = <<>> THEN HeaderPorts(header_ports) ELSE ports,
              parse_instances(body))

\* parse_modules, had it searched the text with its comments left in
parse_modules_unstripped(t) ==
    Map(LAMBDA m : MatchModule(t, m), FindIter(module_pattern, t))

parse_modules(t) ==
    LET clean == strip_comments(t)
    IN Map(LAMBDA m : MatchModule(clean, m), FindIter(module_pattern, clean))

(***************************************************************************)
(* format_port_table, make_mermaid, build_documentation.  A document is    *)
(* the text of its lines joined by newlines.                               *)
(***************************************************************************)
\* sep.join(ss)
Join(ss, sep) ==
    Flatten([k \in 1..(2 * Len(ss) - 1) |-> IF k % 2 = 1 THEN ss[(k + 1) \div 2] ELSE sep])

JoinLines(ls) == Join(ls, <<"\n">>)

\* value or '-'
OrDash(v) == IF v = None \/ v[1] = <<>> THEN <<"-">> ELSE v[1]

PortRow(port) ==
    <<"| ">> \o port.name \o <<" | ">> \o OrDash(port.direction) \o <<" | ">>
    \o OrDash(port.data_type) \o <<" | ">> \o OrDash(port.width) \o <<" |">>

format_port_table(ports) ==
    JoinLines(<<<<"| Name | Direction | Type | Width |">>, <<"| --- | --- | --- | --- |">>>>
              \o Map(PortRow, ports))

\* the two lines of the idx-th instance of a module
MermaidInstanceLines(module, idx) ==
    LET instance == module.instances[idx]
        instance_id == module.name \o <<"_inst_", ToString(idx)>>
        label == instance.module_name \o <<" ">> \o instance.instance_name
    IN <<<<"    ">> \o instance_id \o <<"[\"">> \o label \o <<"\"]">>,
         <<"    ">> \o module.name \o <<"_self">> \o <<" --> ">> \o instance_id>>

MermaidModuleLines(module) ==
    <<<<"  subgraph ">> \o module.name,
      <<"    ">> \o module.name \o <<"_self">> \o <<"[\"">> \o module.name \o <<"\"]">>>>
    \o Flatten([idx \in 1..Len(module.instances) |-> MermaidInstanceLines(module, idx)])
    \o <<<<"  end">>>>

make_mermaid(ms) ==
    JoinLines(<<<<"flowchart LR">>>> \o Flatten(Map(MermaidModuleLines, ms)))

\* the grave accent, which a TLA+ string cannot hold
Backquote == "<grave>"

InstanceLines(instance) ==
    <<<<"- ", Backquote>> \o instance.module_name \o <<Backquote, " ", Backquote>>
      \o instance.instance_name \o <<Backquote>>>>
    \o Map(LAMBDA c : <<"  - .">> \o c[1] \o <<"(">> \o c[2] \o <<")">>,
           instance.connections)

\* the lines of one module's section
SectionLines(module) ==
    <<<<>>, <<"### ">> \o module.name>>
    \o (IF module.parameters # <<>>
        THEN <<<<>>, <<"**Parameters**">>>>
             \o Map(LAMBDA param : <<"- ">> \o param, module.parameters)
        ELSE <<>>)
    \o <<<<>>, <<"**Ports**">>, format_port_table(module.ports), <<>>, <<"**Instances**">>>>
    \o (IF module.instances # <<>>
        THEN Flatten(Map(InstanceLines, module.instances))
        ELSE <<<<"- None">>>>)

\* what one for-loop over the iterable sees, and what the iterable holds
\* afterwards.  A for-loop over an iterator that can be read once only:
IterateOnce(ms) == [items |-> ms, left |-> <<>>]

\* the iterable is the list parse_modules built, which a loop reads
\* without consuming
Iterate(ms) == [items |-> ms, left |-> ms]

\* the lines up to the "## Modules" heading; diagram is make_mermaid's text
DocumentHead(diagram) ==
    <<<<"# Verilog Design Documentation">>, <<>>, <<"## Module Diagram">>, <<>>,
      <<Backquote, Backquote, Backquote, "mermaid">>, diagram,
      <<Backquote, Backquote, Backquote>>, <<>>, <<"## Modules">>>>

\* the document, given the modules each of its two loops saw
Document(diagramItems, sectionItems) ==
    JoinLines(DocumentHead(make_mermaid(diagramItems))
              \o Flatten(Map(SectionLines, sectionItems)))

build_documentation(ms) ==
    LET first == Iterate(ms)
        second == Iterate(first.left)
    IN Document(first.items, second.items)

(***************************************************************************)
(* Inputs.  A text over a few characters is every sequence of them up to a *)
(* length; Verilog is written down as declarations, statements and modules *)
(* and laid out as text the way a designer types it.                       *)
(***************************************************************************)
MaxStripLen == 6
MaxParamLen == 5
MaxNames == 2
MaxConnections == 2
MaxModules == 2

SeqsUpTo(S, n) == UNION {[1..k -> S] : k \in 0..n}
SeqsFromTo(S, m, n) == UNION {[1..k -> S] : k \in m..n}

StripAtoms == {"/", "*", "\n", "a"}
ParamAtoms == {"parameter", " ", ",", "W", "="}

OptText(o) == IF o = None THEN <<>> ELSE <<" ">> \o o[1]

\* a port declaration: direction [data_type] [width] name [= default], ... ;
PortNames == {<<"a">>, <<"b">>, <<"wire", "_en">>}
NameEntries == [name : PortNames, default : BOOLEAN]
PortDecls ==
    [direction : {<<"input">>, <<"output">>, <<"inout">>},
     data_type : {None, Some(<<"wire">>), Some(<<"reg">>)},
     width : {None, Some(<<"[", "7", ":", "0", "]">>)},
     names : SeqsFromTo(NameEntries, 1, MaxNames)]

RenderNameEntry(e) == e.name \o (IF e.default THEN <<" ", "=", " ", "1">> ELSE <<>>)

RenderPortDecl(d) ==
    d.direction \o OptText(d.data_type) \o OptText(d.width) \o <<" ">>
    \o Join(Map(RenderNameEntry, d.names), <<",", " ">>) \o <<";">>

LastPortDecl ==
    [direction |-> <<"output">>, data_type |-> Some(<<"reg">>), width |-> None,
     names |-> <<[name |-> <<"q">>, default |-> FALSE]>>]

\* the bodies parse_port_declarations is applied to: one declaration, or one
\* followed on the next line by another
PortBodies == {<<d>> : d \in PortDecls} \cup {<<d, LastPortDecl>> : d \in PortDecls}

\* an instantiation: module_name instance_name ( .port(signal), ... ) ;
Connection == {<<<<"a">>, <<"x">>>>, <<<<"b">>, <<"y">>>>, <<<<"sum">>, <<"z">>>>}
Insts ==
    [module_name : {<<"adder">>, <<"sub">>},
     instance_name : {<<"u1">>, <<"u2">>},
     connections : SeqsUpTo(Connection, MaxConnections)]

RenderConnection(c) == <<".">> \o c[1] \o <<"(">> \o c[2] \o <<")">>

RenderInst(i) ==
    i.module_name \o <<" ">> \o i.instance_name \o <<"(">>
    \o Join(Map(RenderConnection, i.connections), <<",", " ">>) \o <<")", ";">>

\* a statement of a module body: an instantiation; an instantiation that a
\* generate-if guards; a keyword followed by a name and a parenthesis, the
\* shape of an instantiation; a continuous assignment
Stmts ==
    [kind : {"inst", "generate"}, inst : Insts]
    \cup [kind : {"keyword"}, keyword : KEYWORDS \ {"endmodule"}]
    \cup {[kind |-> "assign"]}

RenderStmt(st) ==
    CASE st.kind = "inst" -> RenderInst(st.inst)
      [] st.kind = "generate" ->
           <<"generate", " ", "if", " ", "(", "W", ")", " ", "begin", " ">>
           \o RenderInst(st.inst) \o <<" ", "end", " ", "endgenerate">>
      [] st.kind = "keyword" -> <<st.keyword, " ", "y", " ", "(", "x", ")", ";">>
      [] st.kind = "assign" -> <<"assign", " ", "y", " ", "=", " ", "x", ";">>

InstBodies == SeqsFromTo(Stmts, 1, 2)

RenderBody(stmts, render(_)) == Join(Map(render, stmts), <<"\n">>)

\* a module declaration, named by its place in the file
ModuleNames == <<"m1", "m2", "m3", "m4">>
Headers ==
    {None, Some(<<>>), Some(<<<<"a">>, <<"b">>>>),
     Some(<<<<"input", " ", "a">>, <<"output", " ", "reg", " ", "b">>>>)}
ModuleBodies ==
    {[decls |-> <<>>, insts |-> <<>>],
     [decls |-> <<[direction |-> <<"input">>, data_type |-> Some(<<"wire">>),
                   width |-> Some(<<"[", "7", ":", "0", "]">>),
                   names |-> <<[name |-> <<"a">>, default |-> FALSE],
                               [name |-> <<"c">>, default |-> FALSE]>>]>>,
      insts |-> <<>>],
     [decls |-> <<>>,
      insts |-> <<[module_name |-> <<"adder">>, instance_name |-> <<"u1">>,
                   connections |-> <<<<<<"a">>, <<"x">>>>>>]>>]}
ModuleDecls ==
    [commented : {FALSE}, params : {<<>>}, header : Headers, body : ModuleBodies]
    \cup [commented : {FALSE}, params : {<<<<"W", "=", "8">>, <<"D", "=", "4">>>>},
          header : {Some(<<<<"a">>, <<"b">>>>)}, body : ModuleBodies]
    \cup [commented : {TRUE}, params : {<<>>}, header : {Some(<<<<"a">>, <<"b">>>>)},
          body : {[decls |-> <<>>, insts |-> <<>>]}]

RenderParams(params) ==
    IF params = <<>> THEN <<>>
    ELSE <<" ", "#", "(">>
         \o Join(Map(LAMBDA f : <<"parameter", " ">> \o f, params), <<",", " ">>)
         \o <<")">>

RenderHeader(header) ==
    IF header = None THEN <<>>
    ELSE <<" ", "(">> \o Join(header[1], <<",", "\n", " ">>) \o <<")">>

RenderModule(d, name) ==
    LET written == <<<<"module", " ", name>> \o RenderParams(d.params)
                   \o RenderHeader(d.header) \o <<";">>>>
                 \o Map(RenderPortDecl, d.body.decls) \o Map(RenderInst, d.body.insts)
                 \o <<<<"endmodule">>>>
    IN IF d.commented THEN <<"/", "*", " ">> \o JoinLines(written) \o <<" ", "*", "/">>
       ELSE JoinLines(written)

\* a design: its module declarations, in file order
Designs == SeqsUpTo(ModuleDecls, MaxModules)

RenderDesign(design) ==
    JoinLines([k \in 1..Len(design) |-> RenderModule(design[k], ModuleNames[k])])

(***************************************************************************)
(* strip_comments, applied once and again.                                 *)
(***************************************************************************)
Idle ==
    /\ out = <<>>
    /\ out2 = <<>>
    /\ modules = <<>>
    /\ lines = <<>>
    /\ error = None
    /\ fs = [dir |-> FALSE, file |-> None]

StripInit ==
    /\ pc = "start"
    /\ text \in SeqsUpTo(StripAtoms, MaxStripLen)
    /\ src = text
    /\ Idle

Strip ==
    /\ pc = "start"
    /\ out' = strip_comments(text)
    /\ pc' = "stripped"
    /\ UNCHANGED <<src, text, out2, modules, error, fs, lines>>

StripAgain ==
    /\ pc = "stripped"
    /\ out2' = strip_comments(out)
    /\ pc' = "restripped"
    /\ UNCHANGED <<src, text, out, modules, error, fs, lines>>

StripNext == Strip \/ StripAgain

StripSpec == StripInit /\ [][StripNext]_vars

(***************************************************************************)
(* parse_parameters, parse_port_declarations and parse_instances, each     *)
(* applied to its input.                                                   *)
(***************************************************************************)
ParamInit ==
    /\ pc = "start"
    /\ src \in {None} \cup {Some(t) : t \in SeqsUpTo(ParamAtoms, MaxParamLen)}
    /\ text = src
    /\ Idle

ParseParameters ==
    /\ pc = "start"
    /\ out' = parse_parameters(text)
    /\ pc' = "done"
    /\ UNCHANGED <<src, text, out2, modules, error, fs, lines>>

ParamSpec == ParamInit /\ [][ParseParameters]_vars

PortInit ==
    /\ pc = "start"
    /\ src \in PortBodies
    /\ text = RenderBody(src, RenderPortDecl)
    /\ Idle

ParsePortDeclarations ==
    /\ pc = "start"
    /\ out' = parse_port_declarations(text)
    /\ pc' = "done"
    /\ UNCHANGED <<src, text, out2, modules, error, fs, lines>>

PortSpec == PortInit /\ [][ParsePortDeclarations]_vars

InstInit ==
    /\ pc = "start"
    /\ src \in InstBodies
    /\ text = RenderBody(src, RenderStmt)
    /\ Idle

ParseInstances ==
    /\ pc = "start"
    /\ out' = parse_instances(text)
    /\ pc' = "done"
    /\ UNCHANGED <<src, text, out2, modules, error, fs, lines>>

InstSpec == InstInit /\ [][ParseInstances]_vars

(***************************************************************************)
(* main: read the input, parse it, refuse an empty result, create the      *)
(* output directory, write the document.                                   *)
(***************************************************************************)
Raised(type, by) == Some([type |-> type, by |-> by])

Init ==
    /\ pc = "start"
    /\ src \in Designs
    /\ text = RenderDesign(src)
    /\ Idle

\* content = args.input.read_text(encoding="utf-8")
ReadInput ==
    /\ pc = "start"
    /\ pc' = "read"
    /\ UNCHANGED <<src, text, out, out2, modules, error, fs, lines>>

\* read_text raises when the input file cannot be read
ReadFails ==
    /\ pc = "start"
    /\ pc' = "failed"
    /\ error' = Raised("OSError", "read_text")
    /\ UNCHANGED <<src, text, out, out2, modules, fs, lines>>

\* modules = parse_modules(content)
ParseModules ==
    /\ pc = "read"
    /\ modules' = parse_modules(text)
    /\ pc' = "parsed"
    /\ UNCHANGED <<src, text, out, out2, error, fs, lines>>

\* main, had it gone on without looking at the list
CheckModulesNoRaise ==
    /\ pc = "parsed"
    /\ pc' = "checked"
    /\ UNCHANGED <<src, text, out, out2, modules, error, fs, lines>>

\* if not modules: raise ValueError("No modules found in input.")
CheckModules ==
    /\ pc = "parsed"
    /\ IF modules = <<>>
       THEN pc' = "failed" /\ error' = Raised("ValueError", "main")
       ELSE pc' = "checked" /\ UNCHANGED error
    /\ UNCHANGED <<src, text, out, out2, modules, fs, lines>>

\* args.output_dir.mkdir(parents=True, exist_ok=True)
MakeOutputDir ==
    /\ pc = "checked"
    /\ fs' = [fs EXCEPT !.dir = TRUE]
    /\ pc' = "dir"
    /\ UNCHANGED <<src, text, out, out2, modules, error, lines>>

\* output_path.write_text(build_documentation(modules), encoding="utf-8")
WriteDocument ==
    /\ pc = "dir"
    /\ fs' = [fs EXCEPT !.file = Some(build_documentation(modules))]
    /\ pc' = "written"
    /\ UNCHANGED <<src, text, out, out2, modules, error, lines>>

Next ==
    \/ ReadInput
    \/ ReadFails
    \/ ParseModules
    \/ CheckModules
    \/ MakeOutputDir
    \/ WriteDocument

Spec == Init /\ [][Next]_vars

(***************************************************************************)
(* build_documentation, called twice on the list parse_modules returned:   *)
(* each call runs the diagram's loop over the modules, then the sections'  *)
(* loop.                                                                   *)
(***************************************************************************)
\* the declarations of the designs that are documented
DocDecls == {d \in ModuleDecls : ~d.commented /\ d.header = Some(<<<<"a">>, <<"b">>>>)}

DocInit ==
    /\ pc = "call1"
    /\ src \in {parse_modules(RenderDesign(design)) : design \in SeqsUpTo(DocDecls, MaxModules)}
    /\ modules = src
    /\ text = <<>>
    /\ out = <<>>
    /\ out2 = <<>>
    /\ lines = <<>>
    /\ error = None
    /\ fs = [dir |-> FALSE, file |-> None]

\* lines = [...]; lines.append(make_mermaid(modules)); ... "## Modules"
DiagramPass ==
    /\ pc \in {"call1", "call2"}
    /\ LET loop == Iterate(modules)
       IN /\ lines' = DocumentHead(make_mermaid(loop.items))
          /\ modules' = loop.left
    /\ pc' = IF pc = "call1" THEN "sections1" ELSE "sections2"
    /\ UNCHANGED <<src, text, out, out2, error, fs>>

\* for module in modules: ...; return "\n".join(lines)
SectionPass ==
    /\ pc \in {"sections1", "sections2"}
    /\ LET loop == Iterate(modules)
           document == JoinLines(lines \o Flatten(Map(SectionLines, loop.items)))
       IN /\ modules' = loop.left
          /\ IF pc = "sections1"
             THEN out' = document /\ pc' = "call2" /\ UNCHANGED out2
             ELSE out2' = document /\ pc' = "done" /\ UNCHANGED out
    /\ UNCHANGED <<src, text, lines, error, fs>>

DocNext == DiagramPass \/ SectionPass

DocSpec == DocInit /\ [][DocNext]_vars

(***************************************************************************)
(* What the input, as written down, declares.                              *)
(***************************************************************************)
\* how many times atom a occurs in text t
Count(a, t) == Cardinality({k \in 1..Len(t) : t[k] = a})

\* t holds the opening of a line comment or of a block comment
HasCommentStart(t) ==
    \E k \in 1..(Len(t) - 1) : t[k] = "/" /\ t[k + 1] \in {"/", "*"}

\* the Ports a list of port declarations declares: one per name, in order
PortsOf(decls) ==
    Flatten(Map(LAMBDA d : Map(LAMBDA e : Port(e.name, Some(d.direction), d.data_type, d.width),
                               d.names),
                decls))

InstanceOf(i) == Instance(i.module_name, i.instance_name, i.connections)

\* the Instances the statements of a body instantiate, in order
InstancesOf(stmts) ==
    Map(LAMBDA st : InstanceOf(st.inst),
        SelectSeq(stmts, LAMBDA st : st.kind \in {"inst", "generate"}))

\* a fragment with its leading parameter keyword removed
WithoutLeadingKeyword(fragment) ==
    IF /\ fragment # <<>>
       /\ fragment[1] = "parameter"
       /\ (Len(fragment) = 1 \/ ~IsWord(fragment[2]))
    THEN StrStrip(Tail(fragment))
    ELSE fragment

\* the fragments of a parameter list: split at the commas, trimmed, the
\* leading keyword removed, the empty ones discarded
FragmentsOf(raw) ==
    IF raw = None THEN <<>>
    ELSE SelectSeq(Map(LAMBDA part : WithoutLeadingKeyword(StrStrip(part)),
                       Split(raw[1], ",")),
                   LAMBDA fragment : fragment # <<>>)

\* the places in a design of the declarations that are not commented out
Declared(design) == SelectSeq([k \in 1..Len(design) |-> k], LAMBDA k : ~design[k].commented)

\* the places in a design of the module blocks `module NAME (...) ; ... endmodule`
Blocks(design) ==
    SelectSeq([k \in 1..Len(design) |-> k],
              LAMBDA k : ~design[k].commented /\ design[k].header # None)

NamesAt(places) == [i \in 1..Len(places) |-> <<ModuleNames[places[i]]>>]

\* the ports of a declaration by the policy: the body's when it declares
\* any, else the header's names alone
PolicyPorts(d) ==
    IF d.body.decls # <<>> THEN PortsOf(d.body.decls)
    ELSE [i \in 1..Len(d.header[1]) |->
             Port(<<d.header[1][i][Len(d.header[1][i])]>>, None, None, None)]

(***************************************************************************)
(* The properties.                                                         *)
(***************************************************************************)
\* C1: as stated, parse_modules fails with an error of its own on a text
\* that holds no module block, instead of returning a sequence.
ParseModulesFailsOnNoBlock ==
    (pc = "parsed" /\ Blocks(src) = <<>>) =>
        (error # None /\ error[1].by = "parse_modules")

\* C1: on a text that holds no module block parse_modules returns the empty
\* list and raises nothing; the run fails one step later, where main raises
\* ValueError on the empty list, and goes no further.
NoBlockGivesEmptyList ==
    Blocks(src) = <<>> =>
        /\ pc = "parsed" => (modules = <<>> /\ error = None)
        /\ pc = "failed" =>
              error \in {Raised("OSError", "read_text"), Raised("ValueError", "main")}
        /\ pc \in {"start", "read", "parsed", "failed"}

NoBlockParsed ==
    /\ pc = "parsed"
    /\ src # <<>>
    /\ Blocks(src) = <<>>
    /\ modules = <<>>
    /\ error = None

\* C2: a run whose parse found no module fails at its next step with
\* nothing created or written; the directory is created and the file is
\* written only in a run whose parse found at least one module, and a failed
\* run has created and written nothing.
NoOutputWithoutModules ==
    /\ []((pc \in {"checked", "dir", "written"} \/ fs.dir \/ fs.file # None)
            => modules # <<>>)
    /\ [](pc = "failed" => (~fs.dir /\ fs.file = None))
    /\ [](fs.file # None => (pc = "written" /\ fs.dir))
    /\ [][(pc = "parsed" /\ modules = <<>>)
            => (pc' = "failed" /\ error' = Raised("ValueError", "main") /\ fs' = fs)]_vars

EmptyParseFailed ==
    /\ pc = "failed"
    /\ src # <<>>
    /\ modules = <<>>
    /\ error = Raised("ValueError", "main")
    /\ ~fs.dir
    /\ fs.file = None

\* C3: for a text with at least one module declaration closed by endmodule,
\* with or without a parameter section, a multi-line header or a
\* parenthesised port list, parse_modules returns one Module per
\* declaration, named after the declarations in source order.
OneModulePerDeclaration ==
    (pc = "parsed" /\ Declared(src) # <<>>) =>
        /\ modules # <<>>
        /\ [i \in 1..Len(modules) |-> modules[i].name] = NamesAt(Declared(src))

\* C4: strip_comments applied to its own result returns that result.
StripIdempotent == pc = "restripped" => out2 = out

StrippedTwice ==
    /\ pc = "restripped"
    /\ out # text
    /\ out # <<>>
    /\ out2 = out

\* C5: the result of strip_comments has as many newlines as its input, and
\* a text without a comment is returned as it is.
StripKeepsNewlines ==
    pc = "stripped" =>
        /\ Count("\n", out) = Count("\n", text)
        /\ ~HasCommentStart(text) => out = text

\* C6: the ports of every assembled module are the ports its body declares
\* when it declares any, and else its header's names in order with no
\* direction, type or width; they are empty only when the module has neither.
PortsFollowPolicy ==
    pc = "parsed" =>
        /\ Len(modules) = Len(Blocks(src))
        /\ \A i \in 1..Len(modules) :
              LET d == src[Blocks(src)[i]]
              IN /\ modules[i].ports = PolicyPorts(d)
                 /\ modules[i].ports = <<>> => (d.body.decls = <<>> /\ d.header[1] = <<>>)

BothPoliciesParsed ==
    /\ pc = "parsed"
    /\ Len(modules) = Len(Blocks(src))
    /\ \E i \in 1..Len(modules) :
          /\ src[Blocks(src)[i]].body.decls # <<>>
          /\ src[Blocks(src)[i]].header[1] # <<>>
          /\ modules[i].ports = PortsOf(src[Blocks(src)[i]].body.decls)
    /\ \E i \in 1..Len(modules) :
          /\ src[Blocks(src)[i]].body.decls = <<>>
          /\ Len(modules[i].ports) = 2
          /\ \A k \in 1..2 : modules[i].ports[k].direction = None

\* C7: parse_port_declarations returns one Port per name of every
\* declaration, in order, with the declaration's direction, storage type
\* and bit width, and with the name cut before any `= default`.
PortsAsDeclared == pc = "done" => out = PortsOf(src)

\* C8: parse_instances returns one Instance per instantiation of the body,
\* in order, with its own connections in order; what starts with a keyword
\* of the denylist gives none and costs no later instantiation.
InstancesAsWritten == pc = "done" => out = InstancesOf(src)

\* C9: parse_parameters returns the fragments between the commas, trimmed,
\* each without its leading parameter keyword and otherwise verbatim, none
\* of them empty, and the empty list for an absent or empty text.
ParametersAsClaimed == pc = "done" => out = FragmentsOf(src)

====
